---- MODULE Spec2Model ----
(***************************************************************************)
(* Model of the orbit-api token endpoint: the Vercel request handler and   *)
(* fetchTokens, in its two source revisions                                *)
(*   "api"     src/api/tokens/[address].ts (CORS + method gate)            *)
(*   "unnamed" src/unnamed/part_000        (no CORS, no method gate)       *)
(*                                                                         *)
(* One request is one behaviour.  The handler runs up to its first await,  *)
(* then each upstream answer (holdings, then every search batch) resumes   *)
(* it.  The upstream provider is the environment: its status and payloads  *)
(* are chosen nondeterministically.                                        *)
(*                                                                         *)
(* Representation.                                                         *)
(*  - A mint (Address) is a natural number standing for a base58 string;   *)
(*    SOL_MINT stands for So11111111111111111111111111111111111111112.     *)
(*    base58 mint strings are never integer-like, so the property order of *)
(*    a JS object keyed by them is insertion order.                        *)
(*  - A decimal string ("5000000000") is the sequence of its digits, and a *)
(*    bigint is its canonical digit sequence (no leading zero, <<0>> for   *)
(*    0n), so balances have arbitrary precision as in the code.            *)
(*  - An optional value is <<>> (absent / null) or <<v>>.                  *)
(*  - Prices are non-negative integers (the float multiply is exact on     *)
(*    them in the modelled range).                                         *)
(***************************************************************************)
EXTENDS Integers, Sequences, FiniteSets, TLC

VARIABLES
    variant,              \* which source revision serves the request
    req,                  \* req.method, req.headers.origin, req.query.address
    env,                  \* process.env.JUPITER_API_KEY
    pc,                   \* position of the handler
    res,                  \* the response written so far
    calls,                \* upstream calls issued, in order
    returns,              \* upstream answers received, in order
    holdingsData,         \* parsed holdings response, once received
    mintAndTotalBalance,  \* fetchTokens: the balance mapping, insertion ordered
    mintsToFetch,         \* fetchTokens: Object.keys(mintAndTotalBalance)
    i,                    \* fetchTokens: batch loop index
    tokenData             \* fetchTokens: output accumulated so far

vars == <<variant, req, env, pc, res, calls, returns, holdingsData,
          mintAndTotalBalance, mintsToFetch, i, tokenData>>

\* ------------------------------------------------------------------ bounds

\* Most entries in the token map of an enumerated holdings response.
MaxEntries == 2

\* ------------------------------------------------------------ basic values

Null == <<>>
Some(x) == <<x>>

SOL_MINT == 0
MINT1 == SOL_MINT + 1

BatchSize == 100

Reverse(s) == [k \in 1..Len(s) |-> s[Len(s) + 1 - k]]

Min(a, b) == IF a < b THEN a ELSE b

\* Array.prototype.slice(from, to), 0-based, `to` exclusive and clamped.
Slice(s, from, to) == SubSeq(s, from + 1, Min(to, Len(s)))

\* --------------------------------------------------------------- bigints

RECURSIVE StripLeadingZeros(_)
StripLeadingZeros(ds) ==
    IF ds = <<>> THEN <<0>>
    ELSE IF Head(ds) = 0 /\ Len(ds) > 1 THEN StripLeadingZeros(Tail(ds))
    ELSE ds

\* BigInt(str) for a string of decimal digits.
BigInt(str) == StripLeadingZeros(str)

RECURSIVE AddRev(_, _, _)
AddRev(a, b, carry) ==
    IF a = <<>> /\ b = <<>>
    THEN IF carry = 0 THEN <<>> ELSE <<carry>>
    ELSE LET x == IF a = <<>> THEN 0 ELSE Head(a)
             y == IF b = <<>> THEN 0 ELSE Head(b)
             s == x + y + carry
         IN  <<s % 10>> \o AddRev(IF a = <<>> THEN <<>> ELSE Tail(a),
                                   IF b = <<>> THEN <<>> ELSE Tail(b),
                                   s \div 10)

\* a + b on bigints.
BigAdd(a, b) == StripLeadingZeros(Reverse(AddRev(Reverse(a), Reverse(b), 0)))

\* a > 0n on (non-negative) bigints.
BigIsPositive(a) == a # <<0>>

\* a / 10n ** BigInt(d): bigint division truncates.
BigDivPow10(a, d) == IF Len(a) <= d THEN <<0>> ELSE SubSeq(a, 1, Len(a) - d)

RECURSIVE MulRev(_, _, _)
MulRev(a, p, carry) ==
    IF a = <<>>
    THEN IF carry = 0 THEN <<>>
         ELSE <<carry % 10>> \o MulRev(<<>>, p, carry \div 10)
    ELSE LET s == Head(a) * p + carry
         IN  <<s % 10>> \o MulRev(Tail(a), p, s \div 10)

\* Number(a) * p for a non-negative integer price p.
BigMulNat(a, p) == StripLeadingZeros(Reverse(MulRev(Reverse(a), p, 0)))

\* ------------------------------------------------------------ the request

Variants == {"api", "unnamed"}

\* req.method; "" stands for an undefined method.
Methods == {"GET", "OPTIONS", "POST", ""}

\* req.headers.origin
LocalhostOrigins == {"http://localhost", "http://localhost:3000"}
Origins == {Null, Some("http://localhost:3000"), Some("https://example.com")}

\* req.query.address: undefined, a string, or an array of strings.
\* wellFormed is the answer of isAddress (from @solana/kit) on a string.
Addresses ==
    { [kind |-> "undefined", empty |-> TRUE,  wellFormed |-> FALSE],
      [kind |-> "string",    empty |-> TRUE,  wellFormed |-> FALSE],
      [kind |-> "string",    empty |-> FALSE, wellFormed |-> FALSE],
      [kind |-> "string",    empty |-> FALSE, wellFormed |-> TRUE],
      [kind |-> "array",     empty |-> TRUE,  wellFormed |-> FALSE],
      [kind |-> "array",     empty |-> FALSE, wellFormed |-> FALSE] }

\* process.env.JUPITER_API_KEY: undefined, "" or a key.
ApiKeys == {Null, Some(""), Some("key")}

\* JS truthiness of req.query.address: undefined and "" are falsy, any
\* array (even an empty one) is truthy.
Truthy(address) ==
    \/ address.kind = "array"
    \/ address.kind = "string" /\ ~address.empty

isAddress(address) == address.kind = "string" /\ address.wellFormed

ALLOWED_ORIGINS == {}

isAllowedOrigin(origin) ==
    IF origin = Null THEN Null
    ELSE IF origin[1] \in ALLOWED_ORIGINS THEN origin
    ELSE IF origin[1] \in LocalhostOrigins THEN origin
    ELSE Null

NoResponse ==
    [status |-> 0, error |-> Null, tokens |-> Null,
     allowOrigin |-> Null, cacheControl |-> Null]

\* setCorsHeaders: only the "api" revision has it.
setCorsHeaders(v, r) ==
    IF v = "api" THEN isAllowedOrigin(r.origin) ELSE Null

\* EarlyResponse without the isAddress check.
EarlyResponse_NoFormatCheck(v, r, e) ==
    IF v = "api" /\ r.method = "OPTIONS"
        THEN Some([status |-> 204, error |-> Null])
    ELSE IF v = "api" /\ (r.method = "" \/ r.method # "GET")
        THEN Some([status |-> 405, error |-> Null])
    ELSE IF ~Truthy(r.address)
        THEN Some([status |-> 400, error |-> Some("Address parameter is required")])
    ELSE IF r.address.kind = "array"
        THEN Some([status |-> 400,
                   error |-> Some("Address parameter must be a single value")])
    ELSE IF e = Null \/ e = Some("")
        THEN Some([status |-> 500, error |-> Some("JUPITER_API_KEY is not configured")])
    ELSE Null

\* The checks of handler before fetchTokens, in order: the response that
\* ends the request early, or Null when the handler goes on to fetchTokens.
EarlyResponse(v, r, e) ==
    IF v = "api" /\ r.method = "OPTIONS"
        THEN Some([status |-> 204, error |-> Null])
    ELSE IF v = "api" /\ (r.method = "" \/ r.method # "GET")
        THEN Some([status |-> 405, error |-> Null])
    ELSE IF ~Truthy(r.address)
        THEN Some([status |-> 400, error |-> Some("Address parameter is required")])
    ELSE IF r.address.kind = "array"
        THEN Some([status |-> 400,
                   error |-> Some("Address parameter must be a single value")])
    ELSE IF ~isAddress(r.address)
        THEN Some([status |-> 400, error |-> Some("Invalid address parameter")])
    ELSE IF e = Null \/ e = Some("")
        THEN Some([status |-> 500, error |-> Some("JUPITER_API_KEY is not configured")])
    ELSE Null

\* ------------------------------------------------- upstream: holdings

\* Decimal strings the holdings endpoint sends as amounts.
Str0 == <<0>>
Str100 == <<1, 0, 0>>
Str200 == <<2, 0, 0>>
Str1500000 == <<1, 5, 0, 0, 0, 0, 0>>
Str5000000000 == <<5, 0, 0, 0, 0, 0, 0, 0, 0, 0>>

\* Balance-record lists of one mint: tokens[mint] = [{amount}, ...].
AmountLists ==
    { <<>>,
      <<[amount |-> Str0]>>,
      <<[amount |-> Str100], [amount |-> Str200]>>,
      <<[amount |-> Str1500000]>> }

MINT2 == MINT1 + 1
SmallMints == {SOL_MINT, MINT1, MINT2}

\* Object.entries(holdingsData.tokens): a JSON object has each key once.
DistinctMints(entries) ==
    \A a, b \in 1..Len(entries) : entries[a].mint = entries[b].mint => a = b

SmallTokenMaps ==
    UNION { { t \in [1..n -> [mint : SmallMints, tokens : AmountLists]] :
                DistinctMints(t) } : n \in 0..MaxEntries }

\* Wallets holding many mints, each with a positive balance: sizes around
\* the batch limit.
BulkSizes == {BatchSize - 1, BatchSize, 2 * BatchSize + 49, 2 * BatchSize + 50}

BulkTokenMap(n) ==
    [k \in 1..n |-> [mint |-> k,
                     tokens |-> <<[amount |-> Str100], [amount |-> Str200]>>]]

HoldingsResponses ==
    { [amount |-> a, tokens |-> t] :
        a \in {Str0, Str5000000000},
        t \in SmallTokenMaps \cup { BulkTokenMap(n) : n \in BulkSizes } }

\* A mint that no enumerated wallet holds.
StrangerMint == 3 * BatchSize

\* ------------------------------------------------------ fetchTokens, step 1

\* tokens.reduce((sum, token) => sum + BigInt(token.amount), 0n)
RECURSIVE SumFrom(_, _)
SumFrom(sum, tokens) ==
    IF tokens = <<>> THEN sum
    ELSE SumFrom(BigAdd(sum, BigInt(Head(tokens).amount)), Tail(tokens))

balanceToAdd(tokens) == SumFrom(<<0>>, tokens)

HasKey(map, mint) == \E k \in 1..Len(map) : map[k].mint = mint

\* mintAndTotalBalance[mint] || 0n
Lookup(map, mint) ==
    IF HasKey(map, mint)
    THEN map[CHOOSE k \in 1..Len(map) : map[k].mint = mint].amount
    ELSE <<0>>

\* mintAndTotalBalance[mint] = value: an existing key keeps its position,
\* a new key goes last.
SetKey(map, mint, value) ==
    IF HasKey(map, mint)
    THEN [k \in 1..Len(map) |->
            IF map[k].mint = mint THEN [mint |-> mint, amount |-> value]
            ELSE map[k]]
    ELSE Append(map, [mint |-> mint, amount |-> value])

\* AddEntry keeping zero sums (>= instead of >).
AddEntry_KeepsZero(map, entry) ==
    SetKey(map, entry.mint,
           BigAdd(Lookup(map, entry.mint), SumFrom(<<0>>, entry.tokens)))

\* AddEntry overwriting an existing entry instead of accumulating into it.
AddEntry_Overwrites(map, entry) ==
    IF BigIsPositive(SumFrom(<<0>>, entry.tokens))
    THEN SetKey(map, entry.mint, SumFrom(<<0>>, entry.tokens))
    ELSE map

\* One iteration of the loop over Object.entries(holdingsData.tokens).
AddEntry(map, entry) ==
    IF BigIsPositive(balanceToAdd(entry.tokens))
    THEN SetKey(map, entry.mint,
                BigAdd(Lookup(map, entry.mint), balanceToAdd(entry.tokens)))
    ELSE map

\* The loop, entry by entry from the first to the last.  Folding the first
\* half and then the second is the same left-to-right fold with a shallow
\* recursion; the test on Len makes TLC evaluate the first half before it
\* descends into the second.
RECURSIVE AddEntries(_, _)
AddEntries(map, entries) ==
    IF entries = <<>> THEN map
    ELSE IF Len(entries) = 1 THEN AddEntry(map, entries[1])
    ELSE LET h == Len(entries) \div 2
             firstHalf == AddEntries(map, SubSeq(entries, 1, h))
         IN  IF Len(firstHalf) >= 0
             THEN AddEntries(firstHalf, SubSeq(entries, h + 1, Len(entries)))
             ELSE firstHalf

\* CollectBalances dropping a zero native balance like any other zero.
CollectBalances_DropsZeroNative(data) ==
    AddEntries(IF BigIsPositive(BigInt(data.amount))
               THEN SetKey(<<>>, SOL_MINT, BigInt(data.amount))
               ELSE <<>>,
               data.tokens)

\* The balance mapping fetchTokens builds from a holdings response.
CollectBalances(data) ==
    AddEntries(SetKey(<<>>, SOL_MINT, BigInt(data.amount)), data.tokens)

\* Object.keys(mintAndTotalBalance)
Keys(map) == [k \in 1..Len(map) |-> map[k].mint]

\* --------------------------------------------------- upstream: search

\* What the search endpoint may say about a token
\* (JupiterTokenSearchApiResponse without its id).
Profiles ==
    << [name |-> "Wrapped SOL", symbol |-> "SOL", decimals |-> 9,
        icon |-> Some("https://icon"), usdPrice |-> Some(2),
        isVerified |-> Some(TRUE),
        stats24h |-> Some([priceChange |-> Some(3)])],
       [name |-> "Token", symbol |-> "TKN", decimals |-> 6,
        icon |-> Null, usdPrice |-> Some(2),
        isVerified |-> Null, stats24h |-> Null],
       [name |-> "Dust", symbol |-> "DST", decimals |-> 0,
        icon |-> Some(""), usdPrice |-> Some(0),
        isVerified |-> Some(FALSE),
        stats24h |-> Some([priceChange |-> Null])],
       [name |-> "Unpriced", symbol |-> "UNP", decimals |-> 6,
        icon |-> Some("https://icon"), usdPrice |-> Null,
        isVerified |-> Some(TRUE),
        stats24h |-> Some([priceChange |-> Some(0)])] >>

\* The market of one request: which profile upstream reports for which mint
\* (mint m has profile m + market, counted round the list of profiles).
Markets == {0, 1}

Metadata(id, market) ==
    LET p == Profiles[((id + market) % Len(Profiles)) + 1]
    IN  [id |-> id, name |-> p.name, symbol |-> p.symbol,
         decimals |-> p.decimals, icon |-> p.icon, usdPrice |-> p.usdPrice,
         isVerified |-> p.isVerified, stats24h |-> p.stats24h]

\* Mints upstream may report although the batch did not ask for them: one
\* that a holdings response may list, one that no wallet holds.
Unrequested(batch) ==
    {MINT1, StrangerMint} \ { batch[k] : k \in 1..Len(batch) }

\* The identifiers of a successful search response to a batch: upstream may
\* answer for every mint, for none, in another order, or add a mint.
SearchIdLists(batch) ==
    {batch, <<>>, Reverse(batch)}
        \cup { Append(batch, m) : m \in Unrequested(batch) }

SearchResponses(batch, market) ==
    { [k \in 1..Len(ids) |-> Metadata(ids[k], market)] :
        ids \in SearchIdLists(batch) }

\* ------------------------------------------------------ fetchTokens, step 2

\* mintsForBatch slicing one identifier too many.
mintsForBatch_OneTooMany(mints, from) == Slice(mints, from, from + BatchSize + 1)

\* mintsForBatch slicing one identifier too few.
mintsForBatch_OneTooFew(mints, from) == Slice(mints, from, from + BatchSize - 1)

\* mintsToFetch.slice(i, i + 100)
mintsForBatch(mints, from) == Slice(mints, from, from + BatchSize)

\* JS truthiness of an optional number / string / boolean.
TruthyNumber(o) == o # Null /\ o[1] # 0
TruthyString(o) == o # Null /\ o[1] # ""
TruthyBool(o) == o # Null /\ o[1]

\* usdValue multiplying by the price before dividing by 10^decimals.
usdValue_MultiplyFirst(totalBalance, token) ==
    IF token.usdPrice # Null /\ token.usdPrice[1] # 0
    THEN Some(BigDivPow10(BigMulNat(totalBalance, token.usdPrice[1]),
                          token.decimals))
    ELSE Null

\* Number(totalBalance / 10n ** BigInt(token.decimals)) * token.usdPrice
usdValue(totalBalance, token) ==
    IF TruthyNumber(token.usdPrice)
    THEN Some(BigMulNat(BigDivPow10(totalBalance, token.decimals),
                        token.usdPrice[1]))
    ELSE Null

\* token?.stats24h?.priceChange || null
priceChange24hPercent(token) ==
    IF token.stats24h = Null THEN Null
    ELSE IF TruthyNumber(token.stats24h[1].priceChange)
         THEN token.stats24h[1].priceChange
         ELSE Null

\* The callback of tokenDataBatch.map: one Token Record per metadata record.
toTokenData(map, token) ==
    LET totalBalance == Lookup(map, token.id)
    IN  [mint |-> token.id,
         amount |-> totalBalance,
         name |-> IF token.id = SOL_MINT THEN "Solana" ELSE token.name,
         symbol |-> token.symbol,
         icon |-> IF TruthyString(token.icon) THEN token.icon ELSE Null,
         decimals |-> token.decimals,
         usdPriceUnit |-> IF TruthyNumber(token.usdPrice)
                          THEN token.usdPrice ELSE Null,
         usdValue |-> usdValue(totalBalance, token),
         jupiterIsVerified |-> TruthyBool(token.isVerified),
         priceChange24hPercent |-> priceChange24hPercent(token)]

\* mapBatch giving the records of a batch in the opposite order.
mapBatch_Reversed(map, tokenDataBatch) ==
    [k \in 1..Len(tokenDataBatch) |->
        toTokenData(map, tokenDataBatch[Len(tokenDataBatch) + 1 - k])]

mapBatch(map, tokenDataBatch) ==
    [k \in 1..Len(tokenDataBatch) |-> toTokenData(map, tokenDataBatch[k])]

HoldingsCall == [kind |-> "holdings", mints |-> <<>>]
SearchCall(batch) == [kind |-> "search", mints |-> batch]

\* ------------------------------------------------------------------ state

Init ==
    /\ variant \in Variants
    /\ req \in [method : Methods, origin : Origins, address : Addresses,
                market : Markets]
    \* the "unnamed" revision reads neither the method nor the origin
    /\ variant = "unnamed" => req.method = "GET" /\ req.origin = Null
    /\ env \in ApiKeys
    /\ pc = "start"
    /\ res = NoResponse
    /\ calls = <<>>
    /\ returns = <<>>
    /\ holdingsData = Null
    /\ mintAndTotalBalance = <<>>
    /\ mintsToFetch = <<>>
    /\ i = 0
    /\ tokenData = <<>>

\* The catch block of handler, and its other error responses.
ErrorResponse(r, status, error) ==
    [r EXCEPT !.status = status, !.error = error]

\* res.status(200).json({ tokens }), with the cache header of "api".
OkResponse(v, r, tokens) ==
    [r EXCEPT !.status = 200, !.tokens = Some(tokens),
              !.cacheControl = IF v = "api" THEN Some("public, max-age=60")
                               ELSE Null]

\* handler, from its entry to its first await (the holdings fetch) or to
\* the response that ends it.
HandlerEntry ==
    /\ pc = "start"
    /\ LET early == EarlyResponse(variant, req, env)
           r0 == [res EXCEPT !.allowOrigin = setCorsHeaders(variant, req)]
       IN  IF early # Null
           THEN /\ res' = ErrorResponse(r0, early[1].status, early[1].error)
                /\ pc' = "done"
                /\ calls' = calls
           ELSE /\ res' = r0
                /\ pc' = "awaitHoldings"
                /\ calls' = Append(calls, HoldingsCall)
    /\ UNCHANGED <<variant, req, env, returns, holdingsData,
                   mintAndTotalBalance, mintsToFetch, i, tokenData>>

\* HoldingsFails going on as if the wallet held nothing.
HoldingsFails_GoesOn ==
    /\ pc = "awaitHoldings"
    /\ returns' = Append(returns, [ok |-> FALSE, data |-> <<>>])
    /\ mintsToFetch' = <<SOL_MINT>>
    /\ calls' = Append(calls, [kind |-> "search", mints |-> <<SOL_MINT>>])
    /\ pc' = "awaitSearch"
    /\ UNCHANGED <<variant, req, env, res, holdingsData, mintAndTotalBalance,
                   i, tokenData>>

\* The holdings call answers with a non-success status: fetchTokens throws,
\* the handler catches.
HoldingsFails ==
    /\ pc = "awaitHoldings"
    /\ returns' = Append(returns, [ok |-> FALSE, data |-> <<>>])
    /\ res' = ErrorResponse(res, 500, Some("Failed to fetch tokens"))
    /\ pc' = "done"
    /\ UNCHANGED <<variant, req, env, calls, holdingsData,
                   mintAndTotalBalance, mintsToFetch, i, tokenData>>

\* The holdings call succeeds: build the mapping, enter the batch loop and
\* issue the first search call (the mapping always holds SOL_MINT).
HoldingsSucceeds ==
    /\ pc = "awaitHoldings"
    /\ \E data \in HoldingsResponses :
         LET map == CollectBalances(data)
             mints == Keys(map)
         IN  /\ returns' = Append(returns, [ok |-> TRUE, data |-> <<>>])
             /\ holdingsData' = Some(data)
             /\ mintAndTotalBalance' = map
             /\ mintsToFetch' = mints
             /\ i' = 0
             /\ tokenData' = <<>>
             /\ IF 0 < Len(mints)
                THEN /\ calls' = Append(calls, SearchCall(mintsForBatch(mints, 0)))
                     /\ pc' = "awaitSearch"
                     /\ res' = res
                ELSE /\ calls' = calls
                     /\ pc' = "done"
                     /\ res' = OkResponse(variant, res, <<>>)
    /\ UNCHANGED <<variant, req, env>>

\* SearchFails answering with the records gathered so far.
SearchFails_ReturnsPartial ==
    /\ pc = "awaitSearch"
    /\ returns' = Append(returns, [ok |-> FALSE, data |-> <<>>])
    /\ res' = [res EXCEPT !.status = 200, !.tokens = Some(tokenData)]
    /\ pc' = "done"
    /\ UNCHANGED <<variant, req, env, calls, holdingsData,
                   mintAndTotalBalance, mintsToFetch, i, tokenData>>

\* A search call answers with a non-success status: fetchTokens throws,
\* the handler catches.
SearchFails ==
    /\ pc = "awaitSearch"
    /\ returns' = Append(returns, [ok |-> FALSE, data |-> <<>>])
    /\ res' = ErrorResponse(res, 500, Some("Failed to fetch tokens"))
    /\ pc' = "done"
    /\ UNCHANGED <<variant, req, env, calls, holdingsData,
                   mintAndTotalBalance, mintsToFetch, i, tokenData>>

\* A search call succeeds: push its records, then either issue the next
\* batch or return the list, which the handler sends.
SearchSucceeds ==
    /\ pc = "awaitSearch"
    /\ \E tokenDataBatch \in
            SearchResponses(mintsForBatch(mintsToFetch, i), req.market) :
         LET out == tokenData \o mapBatch(mintAndTotalBalance, tokenDataBatch)
             next == i + BatchSize
         IN  /\ returns' = Append(returns, [ok |-> TRUE, data |-> tokenDataBatch])
             /\ tokenData' = out
             /\ i' = next
             /\ IF next < Len(mintsToFetch)
                THEN /\ calls' = Append(calls,
                                        SearchCall(mintsForBatch(mintsToFetch, next)))
                     /\ pc' = "awaitSearch"
                     /\ res' = res
                ELSE /\ calls' = calls
                     /\ pc' = "done"
                     /\ res' = OkResponse(variant, res, out)
    /\ UNCHANGED <<variant, req, env, holdingsData, mintAndTotalBalance,
                   mintsToFetch>>

Next ==
    \/ HandlerEntry
    \/ HoldingsFails
    \/ HoldingsSucceeds
    \/ SearchFails
    \/ SearchSucceeds

Spec == Init /\ [][Next]_vars

TypeOK ==
    /\ pc \in {"start", "awaitHoldings", "awaitSearch", "done"}
    /\ res.status \in {0, 200, 204, 400, 405, 500}
    /\ Len(returns) <= Len(calls)

\* ------------------------------------------------------------- properties

\* The request is over and answered 200 with a token list.
Succeeded == pc = "done" /\ res.status = 200 /\ res.tokens # Null

\* The search calls issued so far (every call after the holdings call).
SearchCallsIssued == IF calls = <<>> THEN <<>> ELSE Tail(calls)

\* The metadata records received so far, over all search responses in the
\* order the responses arrived.
RECURSIVE ConcatData(_)
ConcatData(rs) ==
    IF rs = <<>> THEN <<>> ELSE Head(rs).data \o ConcatData(Tail(rs))

UpstreamRecords == ConcatData(returns)

Ids(records) == [k \in 1..Len(records) |-> records[k].id]

\* The identifiers of a sequence of Token Records.
Mints(records) == [k \in 1..Len(records) |-> records[k].mint]

\* The total of a balance-record list, summed from its end.
RECURSIVE Total(_)
Total(tokens) ==
    IF tokens = <<>> THEN <<0>>
    ELSE BigAdd(BigInt(Head(tokens).amount), Total(Tail(tokens)))

AddressOk ==
    /\ req.address.kind = "string"
    /\ ~req.address.empty
    /\ req.address.wellFormed

KeyOk == env # Null /\ env # Some("")

\* The request gets past the method gate (only the "api" revision has one).
PassesMethodGate == variant = "api" => req.method = "GET"

\* C1 as stated: no upstream call unless the address is present,
\* single-valued and well formed and the credential is configured; a bad
\* address always ends the request with 400, a missing credential with 500.
C1_AsStated ==
    /\ ~(AddressOk /\ KeyOk) => calls = <<>>
    /\ pc = "done" /\ ~AddressOk => res.status = 400 /\ res.error # Null
    /\ pc = "done" /\ AddressOk /\ ~KeyOk => res.status = 500 /\ res.error # Null

\* C1 amended: no upstream call is ever issued unless the address is
\* present, single-valued and well formed and the credential is configured.
\* A request that passes the method gate ends with a 400 error response on
\* a bad address and with a 500 error response on a missing credential; a
\* request the method gate stops ends with 204 or 405, whatever its address.
C1_NoUpstreamCallWithoutValidInput ==
    /\ ~(AddressOk /\ KeyOk) => calls = <<>>
    /\ pc = "done" /\ PassesMethodGate /\ ~AddressOk =>
            res.status = 400 /\ res.error # Null /\ res.tokens = Null
    /\ pc = "done" /\ PassesMethodGate /\ AddressOk /\ ~KeyOk =>
            res.status = 500 /\ res.error # Null /\ res.tokens = Null
    /\ pc = "done" /\ ~PassesMethodGate =>
            res.status \in {204, 405} /\ res.error = Null /\ calls = <<>>

C1_Witness ==
    /\ pc = "done"
    /\ variant = "api"
    /\ req.method = "GET"
    /\ req.address.kind = "string" /\ ~req.address.empty
    /\ ~req.address.wellFormed
    /\ KeyOk
    /\ res.status = 400
    /\ calls = <<>>

\* C2: a search call that returns a non-success status is the last call of
\* the request (no retry, no later batch), and the request ends with a 500
\* generic error and no token list, whatever earlier batches returned.
C2_SearchFailureFailsAll ==
    \A k \in 1..Len(returns) :
        calls[k].kind = "search" /\ ~returns[k].ok =>
            /\ k = Len(calls)
            /\ pc = "done"
            /\ res.status = 500
            /\ res.error = Some("Failed to fetch tokens")
            /\ res.tokens = Null

C2_Witness ==
    /\ pc = "done"
    /\ Len(returns) = 3
    /\ returns[2].ok /\ returns[2].data # <<>>
    /\ ~returns[3].ok
    /\ tokenData # <<>>
    /\ res.status = 500

\* The holdings response lists no token besides the native asset.
OnlyNativeHeld ==
    /\ holdingsData # Null
    /\ \A k \in 1..Len(holdingsData[1].tokens) :
            holdingsData[1].tokens[k].mint = SOL_MINT

\* C3 as stated: with no entry besides the native asset, a successful
\* request's output is exactly one record, the native asset's.
C3_AsStated ==
    Succeeded /\ OnlyNativeHeld =>
        /\ Len(res.tokens[1]) = 1
        /\ res.tokens[1][1].mint = SOL_MINT

\* C3 amended: with no entry besides the native asset the balance mapping
\* holds exactly the native identifier (even with balance zero) and exactly
\* one search call is issued, carrying only the native identifier; a
\* successful request's output has one record per record of that call's
\* response, so it is exactly the native asset's record when upstream
\* answers with exactly the native asset's record.
C3_OnlyNativeQueried ==
    OnlyNativeHeld =>
        /\ Keys(mintAndTotalBalance) = <<SOL_MINT>>
        /\ SearchCallsIssued = <<[kind |-> "search", mints |-> <<SOL_MINT>>]>>
        /\ Succeeded =>
            /\ Len(returns) = 2
            /\ Mints(res.tokens[1]) = Ids(returns[2].data)
            /\ Ids(returns[2].data) = <<SOL_MINT>> =>
                    /\ Len(res.tokens[1]) = 1
                    /\ res.tokens[1][1].mint = SOL_MINT
                    /\ res.tokens[1][1].name = "Solana"

C3_Witness ==
    /\ Succeeded
    /\ holdingsData = Some([amount |-> Str0, tokens |-> <<>>])
    /\ Len(res.tokens[1]) = 1
    /\ res.tokens[1][1].mint = SOL_MINT
    /\ res.tokens[1][1].amount = <<0>>

\* The non-native mints the holdings response lists with a total of zero.
ZeroTotalMints ==
    IF holdingsData = Null THEN {}
    ELSE { holdingsData[1].tokens[k].mint :
            k \in { j \in 1..Len(holdingsData[1].tokens) :
                      /\ holdingsData[1].tokens[j].mint # SOL_MINT
                      /\ Total(holdingsData[1].tokens[j].tokens) = <<0>> } }

NotInMappingNorQueried(m) ==
    /\ \A k \in 1..Len(mintAndTotalBalance) : mintAndTotalBalance[k].mint # m
    /\ \A c \in 1..Len(calls) :
            \A k \in 1..Len(calls[c].mints) : calls[c].mints[k] # m

\* C4 as stated: a non-native identifier with a zero total has no Balance
\* Entry, is in no search batch, and has no Token Record in the output.
C4_AsStated ==
    \A m \in ZeroTotalMints :
        /\ NotInMappingNorQueried(m)
        /\ \A k \in 1..Len(tokenData) : tokenData[k].mint # m

\* C4 amended: a non-native identifier with a zero total has no Balance
\* Entry and is in no search batch; the output has a Token Record for it
\* only where an upstream search response itself holds a record with that
\* identifier, and such a Token Record has amount 0.
C4_ZeroTotalNeverQueried ==
    \A m \in ZeroTotalMints :
        /\ NotInMappingNorQueried(m)
        /\ \A k \in 1..Len(tokenData) :
                tokenData[k].mint = m =>
                    /\ tokenData[k].amount = <<0>>
                    /\ \E u \in 1..Len(UpstreamRecords) :
                            UpstreamRecords[u].id = m

C4_Witness ==
    /\ Succeeded
    /\ ZeroTotalMints = {MINT1}
    /\ Len(mintAndTotalBalance) = 2
    /\ Keys(mintAndTotalBalance) = <<SOL_MINT, MINT2>>
    /\ SearchCallsIssued = <<[kind |-> "search", mints |-> <<SOL_MINT, MINT2>>]>>
    /\ Mints(res.tokens[1]) = <<SOL_MINT, MINT2>>

\* How many identifiers each search call carried, call by call.
BatchSizes ==
    [k \in 1..Len(SearchCallsIssued) |-> Len(SearchCallsIssued[k].mints)]

\* The identifiers of the mapping whose balance is not zero.
NonZeroBalanceIds ==
    { mintAndTotalBalance[k].mint :
        k \in { j \in 1..Len(mintAndTotalBalance) :
                  mintAndTotalBalance[j].amount # <<0>> } }

\* C5 as stated: with 250 distinct non-zero-balance identifiers a request in
\* which every call succeeds issues 3 search calls of 100, 100 and 50.
C5_AsStated ==
    Succeeded /\ Cardinality(NonZeroBalanceIds) = 2 * BatchSize + 50 =>
        BatchSizes = <<100, 100, 50>>

\* C5 amended: the batches are cut from the whole mapping, in which the
\* native asset always counts, even with balance zero.  A mapping of 250
\* identifiers (the native asset and 249 others) gives 3 search calls of
\* 100, 100 and 50 identifiers in that order; 250 non-zero-balance
\* identifiers besides the native asset make 251 and give 100, 100 and 51.
C5_BatchesOf250 ==
    Succeeded =>
        /\ Len(mintAndTotalBalance) = 250 => BatchSizes = <<100, 100, 50>>
        /\ Len(mintAndTotalBalance) = 251 => BatchSizes = <<100, 100, 51>>

C5_Witness ==
    /\ Succeeded
    /\ Len(mintAndTotalBalance) = 250
    /\ Cardinality(NonZeroBalanceIds) = 250
    /\ BatchSizes = <<100, 100, 50>>

\* The example of the end-to-end property: 5000000000 native, and MINT1
\* held in two accounts with 100 and 200.
ExampleHoldings ==
    [amount |-> Str5000000000,
     tokens |-> <<[mint |-> MINT1,
                   tokens |-> <<[amount |-> Str100], [amount |-> Str200]>>]>>]

\* The Balance Entry value of an identifier is v (0 without an entry).
EntryValueIs(m, v) ==
    \/ \E k \in 1..Len(mintAndTotalBalance) :
            mintAndTotalBalance[k] = [mint |-> m, amount |-> v]
    \/ /\ \A k \in 1..Len(mintAndTotalBalance) : mintAndTotalBalance[k].mint # m
       /\ v = <<0>>

\* C6: on a successful request the output is, record for record, the
\* concatenation of the search responses in the order the batches were
\* issued, each record's amount being the Balance Entry value of its
\* identifier (0 without an entry); the example holdings with a response
\* listing the native identifier then MINT1 give exactly the amounts
\* 5000000000 and 300, in that order.
C6_OutputFollowsResponses ==
    Succeeded =>
        /\ Mints(res.tokens[1]) = Ids(UpstreamRecords)
        /\ \A k \in 1..Len(res.tokens[1]) :
                EntryValueIs(res.tokens[1][k].mint, res.tokens[1][k].amount)
        /\ ( /\ holdingsData = Some(ExampleHoldings)
             /\ Ids(UpstreamRecords) = <<SOL_MINT, MINT1>> ) =>
                /\ Len(res.tokens[1]) = 2
                /\ res.tokens[1][1].mint = SOL_MINT
                /\ res.tokens[1][1].amount = <<5, 0, 0, 0, 0, 0, 0, 0, 0, 0>>
                /\ res.tokens[1][2].mint = MINT1
                /\ res.tokens[1][2].amount = <<3, 0, 0>>

C6_Witness ==
    /\ Succeeded
    /\ holdingsData = Some(ExampleHoldings)
    /\ Ids(UpstreamRecords) = <<SOL_MINT, MINT1>>
    /\ Len(res.tokens[1]) = 2
    /\ res.tokens[1][2].amount = <<3, 0, 0>>

\* C7: every output record with a price has usdValue = (amount div
\* 10^decimals) * usdPriceUnit, the division truncating before the multiply
\* (1500000 with 6 decimals at price 2 gives 2, not 3); a record for which
\* upstream gave no price has usdValue and usdPriceUnit null.
C7_UsdValueTruncates ==
    /\ Len(tokenData) = Len(UpstreamRecords)
    /\ \A k \in 1..Len(tokenData) :
        LET t == tokenData[k]
            u == UpstreamRecords[k]
        IN  /\ t.usdPriceUnit # Null =>
                  t.usdValue = Some(BigMulNat(BigDivPow10(t.amount, t.decimals),
                                              t.usdPriceUnit[1]))
            /\ u.usdPrice = Null =>
                  t.usdValue = Null /\ t.usdPriceUnit = Null
            /\ ( /\ t.amount = <<1, 5, 0, 0, 0, 0, 0>>
                 /\ t.decimals = 6
                 /\ t.usdPriceUnit = Some(2) ) => t.usdValue = Some(<<2>>)

C7_Witness ==
    /\ Succeeded
    /\ \E k \in 1..Len(res.tokens[1]) :
            /\ res.tokens[1][k].amount = <<1, 5, 0, 0, 0, 0, 0>>
            /\ res.tokens[1][k].decimals = 6
            /\ res.tokens[1][k].usdPriceUnit = Some(2)
            /\ res.tokens[1][k].usdValue = Some(<<2>>)
    /\ \E k \in 1..Len(res.tokens[1]) :
            /\ UpstreamRecords[k].usdPrice = Null
            /\ res.tokens[1][k].usdValue = Null

\* The total listed under a mint in the holdings token map (0 if unlisted).
ListedTotal(data, m) ==
    IF \E k \in 1..Len(data.tokens) : data.tokens[k].mint = m
    THEN Total(data.tokens[CHOOSE k \in 1..Len(data.tokens) :
                                data.tokens[k].mint = m].tokens)
    ELSE <<0>>

\* C8: after balance collection the mapping has at most one entry per
\* identifier and holds exactly the native identifier (always) and every
\* other identifier whose amounts sum to more than zero; a non-native
\* entry's value is that sum, the native entry's value is the top-level
\* balance plus the sum listed under the native identifier, if any.
C8_BalanceMapping ==
    holdingsData # Null =>
        LET data == holdingsData[1]
            map == mintAndTotalBalance
            entries == { map[k] : k \in 1..Len(map) }
            positive == { k \in 1..Len(data.tokens) :
                            Total(data.tokens[k].tokens) # <<0>> }
        IN  \* at most one entry per identifier
            /\ Cardinality({ e.mint : e \in entries }) = Len(map)
            \* exactly the native identifier and the positive totals
            /\ { e.mint : e \in entries } =
                  {SOL_MINT} \cup { data.tokens[k].mint : k \in positive }
            \* the values
            /\ [mint |-> SOL_MINT,
                amount |-> BigAdd(BigInt(data.amount),
                                  ListedTotal(data, SOL_MINT))] \in entries
            /\ \A k \in positive :
                  data.tokens[k].mint # SOL_MINT =>
                      [mint |-> data.tokens[k].mint,
                       amount |-> Total(data.tokens[k].tokens)] \in entries

C8_Witness ==
    /\ holdingsData # Null
    /\ holdingsData[1].amount = Str5000000000
    /\ Len(holdingsData[1].tokens) = 2
    /\ holdingsData[1].tokens[1].mint = MINT1
    /\ holdingsData[1].tokens[1].tokens = <<[amount |-> Str0]>>
    /\ holdingsData[1].tokens[2].mint = SOL_MINT
    /\ mintAndTotalBalance =
          <<[mint |-> SOL_MINT, amount |-> <<5, 0, 0, 0, 0, 0, 0, 3, 0, 0>>]>>

\* C9: the search calls of a request in which no call fails are the
\* consecutive runs of at most 100 identifiers of the mapping, in insertion
\* order: ceil(N/100) calls, the k-th carrying positions 100(k-1)+1 ..
\* min(100k, N), so each call carries 1 to 100 identifiers and each
\* identifier of the mapping is sent in exactly one call; calls are issued
\* one at a time.
C9_ConsecutiveBatches ==
    /\ Len(calls) <= Len(returns) + 1
    /\ Succeeded =>
        LET keys == [k \in 1..Len(mintAndTotalBalance) |->
                        mintAndTotalBalance[k].mint]
            N == Len(keys)
            sent == SearchCallsIssued
        IN  /\ Len(sent) = (N + 99) \div 100
            /\ \A k \in 1..Len(sent) :
                  /\ sent[k].kind = "search"
                  /\ sent[k].mints =
                        SubSeq(keys, 100 * (k - 1) + 1, Min(100 * k, N))
                  /\ Len(sent[k].mints) \in 1..100
            /\ \A n \in 1..N :
                  Cardinality({ k \in 1..Len(sent) :
                                  keys[n] \in { sent[k].mints[j] :
                                                  j \in 1..Len(sent[k].mints) }
                              }) = 1

C9_Witness ==
    /\ Succeeded
    /\ Len(mintAndTotalBalance) = 101
    /\ Len(SearchCallsIssued) = 2
    /\ Len(SearchCallsIssued[1].mints) = 100
    /\ SearchCallsIssued[2].mints = <<BatchSize>>

\* C10: the first upstream call of a request is its one holdings call, and
\* every later call is a search call issued only after the holdings call
\* returned successfully and the whole mapping was built from its response;
\* when the holdings call returns a non-success status the request ends
\* with 500 and no search call.
C10_HoldingsBeforeSearch ==
    /\ \A k \in 1..Len(calls) :
            calls[k].kind = IF k = 1 THEN "holdings" ELSE "search"
    /\ pc \in {"awaitHoldings", "awaitSearch"} => calls # <<>>
    /\ Len(calls) >= 2 =>
            /\ returns # <<>> /\ returns[1].ok
            /\ holdingsData # Null
            /\ LET held == { mintAndTotalBalance[j].mint :
                                j \in 1..Len(mintAndTotalBalance) }
               IN  /\ \A k \in 1..Len(holdingsData[1].tokens) :
                        Total(holdingsData[1].tokens[k].tokens) # <<0>> =>
                            holdingsData[1].tokens[k].mint \in held
                   /\ \A c \in 2..Len(calls) :
                        \A j \in 1..Len(calls[c].mints) :
                            calls[c].mints[j] \in held
    /\ (returns # <<>> /\ ~returns[1].ok) =>
            /\ pc = "done"
            /\ res.status = 500
            /\ res.error = Some("Failed to fetch tokens")
            /\ res.tokens = Null
            /\ calls = <<[kind |-> "holdings", mints |-> <<>>]>>

C10_Witness ==
    /\ pc = "done"
    /\ Len(calls) = 1
    /\ calls[1].kind = "holdings"
    /\ returns = <<[ok |-> FALSE, data |-> <<>>]>>
    /\ res.status = 500

====
